---- MODULE Spec2Model ----
(***************************************************************************)
(* Pashu Mitra AI Backend (main.py): the three upload endpoints            *)
(* /api/classify, /api/snake, /api/emotion with their best-effort audit    *)
(* logging, and the /test health check.                                    *)
(*                                                                         *)
(* Conventions of the model                                                *)
(*   - a Python str that the code inspects (a file name, a keyword) is a   *)
(*     sequence of one-character strings, so that lower() and `in` are     *)
(*     computed and not assumed;                                           *)
(*   - a confidence is an integer number of hundredths (0.92 is 92), so    *)
(*     the interval [0,1] is 0..100;                                       *)
(*   - Python's None is the record None; an optional str is None or        *)
(*     Str(s);                                                             *)
(*   - the decorative emoji prefixes of the /test labels are dropped.      *)
(***************************************************************************)
EXTENDS Integers, Sequences, FiniteSets, Bags, TLC

VARIABLES
    pc,          \* pc[r]: where the handler of request r stands
    handler,     \* handler[r]: the endpoint function serving request r
    files,       \* files[r]: the UploadFile list of request r (with stream positions)
    local,       \* local[r]: the handler's local variables
    response,    \* response[r]: what the caller of request r received
    events,      \* events[r]: history of the calls made on behalf of request r
    db,          \* database.db, the process-wide store handle
    analysislog, \* the bag of documents inserted in the "analysislog" collection
    environ,     \* os.environ, restricted to the variables /test looks at
    store,       \* the store situation /test meets
    health       \* what /test returned

vars == <<pc, handler, files, local, response, events, db, analysislog,
          environ, store, health>>

upload_vars == <<pc, handler, files, local, response, events, db, analysislog>>
health_vars == <<environ, store, health>>

---------------------------------------------------------------------------
(* Bounds *)

NReq == 2            \* requests in flight together
MaxFiles == 2        \* files of one request
MaxCollections == 11 \* collections the store may list

---------------------------------------------------------------------------
(* Python values *)

None == [type |-> "NoneType"]
Str(s) == [type |-> "str", value |-> s]

Min(a, b) == IF a < b THEN a ELSE b

UpperCase == <<"A","B","C","D","E","F","G","H","I","J","K","L","M",
               "N","O","P","Q","R","S","T","U","V","W","X","Y","Z">>
LowerCase == <<"a","b","c","d","e","f","g","h","i","j","k","l","m",
               "n","o","p","q","r","s","t","u","v","w","x","y","z">>

\* The lower-case letter of each upper-case letter
LowerOf ==
    [c \in { UpperCase[i] : i \in 1..Len(UpperCase) } |->
        LowerCase[CHOOSE i \in 1..Len(UpperCase) : UpperCase[i] = c]]

\* str.lower() on one character
lower_char(c) == IF c \in DOMAIN LowerOf THEN LowerOf[c] ELSE c

\* str.lower()
lower(s) == [i \in 1..Len(s) |-> lower_char(s[i])]

\* k in name, for two str
contains(name, k) ==
    \E i \in 0..(Len(name) - Len(k)) : \A j \in 1..Len(k) : name[i + j] = k[j]

\* any(k in name for k in keywords)
any_in(name, keywords) == \E j \in 1..Len(keywords) : contains(name, keywords[j])

---------------------------------------------------------------------------
(* Utility heuristics (mock AI) *)

Prediction(l, c) == [label |-> l, confidence |-> c]

cow_keywords == << <<"c","o","w">>, <<"c","a","t","t","l","e">>,
                   <<"b","o","v","i","n","e">> >>
dog_keywords == << <<"d","o","g">>, <<"c","a","n","i","n","e">> >>
cat_keywords == << <<"c","a","t">>, <<"f","e","l","i","n","e">> >>
venom_keywords == << <<"c","o","b","r","a">>, <<"v","i","p","e","r">>,
                     <<"k","r","a","i","t">> >>
happy_keywords == << <<"h","a","p","p","y">>, <<"s","m","i","l","e">> >>
angry_keywords == << <<"a","n","g","r","y">>, <<"g","r","o","w","l">>,
                     <<"h","i","s","s">> >>

_mock_classifier_labels(filename) ==
    LET name == lower(filename) IN
    IF any_in(name, cow_keywords)
    THEN << Prediction("Cow", 92), Prediction("Buffalo", 5), Prediction("Yak", 3) >>
    ELSE IF any_in(name, dog_keywords)
    THEN << Prediction("Dog", 90), Prediction("Wolf", 6), Prediction("Fox", 4) >>
    ELSE IF any_in(name, cat_keywords)
    THEN << Prediction("Cat", 91), Prediction("Lynx", 5), Prediction("Puma", 4) >>
    ELSE << Prediction("Unknown Animal", 60), Prediction("Dog", 22),
            Prediction("Cat", 18) >>

_mock_snake_assessment(filename) ==
    LET name == lower(filename)
        venom == any_in(name, venom_keywords)
        label == IF venom THEN "Venomous Snake" ELSE "Non-venomous Snake"
    IN  << Prediction(label, IF venom THEN 88 ELSE 82),
           Prediction("Rat Snake", 8), Prediction("Other", 4) >>

\* A slip in the fallback branch: the entries listed out of rank order.
_mock_emotion_unranked(filename) ==
    LET name == lower(filename) IN
    IF any_in(name, happy_keywords)
    THEN << Prediction("Happy", 93), Prediction("Relaxed", 5), Prediction("Alert", 2) >>
    ELSE IF any_in(name, angry_keywords)
    THEN << Prediction("Agitated", 88), Prediction("Alert", 8),
            Prediction("Neutral", 4) >>
    ELSE << Prediction("Curious", 20), Prediction("Neutral", 70),
            Prediction("Relaxed", 10) >>

_mock_emotion(filename) ==
    LET name == lower(filename) IN
    IF any_in(name, happy_keywords)
    THEN << Prediction("Happy", 93), Prediction("Relaxed", 5), Prediction("Alert", 2) >>
    ELSE IF any_in(name, angry_keywords)
    THEN << Prediction("Agitated", 88), Prediction("Alert", 8),
            Prediction("Neutral", 4) >>
    ELSE << Prediction("Neutral", 70), Prediction("Curious", 20),
            Prediction("Relaxed", 10) >>

---------------------------------------------------------------------------
(* The payload each endpoint composes before it logs *)

\* fs is the non-empty list of UploadFile; first = files[0]
classify_payload(fs) ==
    LET first == fs[1]
        predictions == _mock_classifier_labels(first.filename)
        meta == [filename |-> first.filename,
                 content_type |-> first.content_type,
                 files_count |-> Len(fs)]
    IN  [module |-> "classifier", predictions |-> predictions, meta |-> meta]

\* A slip: the assessment taken from the last file of the batch.
snake_payload_last(fs) ==
    LET first == fs[1]
        predictions == _mock_snake_assessment(fs[Len(fs)].filename)
        venomous == predictions[1].label = "Venomous Snake"
        meta == [filename |-> first.filename,
                 content_type |-> first.content_type,
                 danger |-> IF venomous THEN "Dangerous" ELSE "Generally Safe",
                 files_count |-> Len(fs)]
    IN  [module |-> "snake", predictions |-> predictions, meta |-> meta]

snake_payload(fs) ==
    LET first == fs[1]
        predictions == _mock_snake_assessment(first.filename)
        venomous == predictions[1].label = "Venomous Snake"
        meta == [filename |-> first.filename,
                 content_type |-> first.content_type,
                 danger |-> IF venomous THEN "Dangerous" ELSE "Generally Safe",
                 files_count |-> Len(fs)]
    IN  [module |-> "snake", predictions |-> predictions, meta |-> meta]

emotion_payload(fs) ==
    LET first == fs[1]
        predictions == _mock_emotion(first.filename)
        meta == [filename |-> first.filename,
                 content_type |-> first.content_type,
                 files_count |-> Len(fs)]
    IN  [module |-> "emotion", predictions |-> predictions, meta |-> meta]

---------------------------------------------------------------------------
(* Requests: the inputs the endpoints are driven with *)

Requests == 1..NReq

\* An UploadFile: its name, its content type (None when the part carries no
\* Content-Type header), the length of its content and the stream position.
\* The framework hands the file over rewound.
Upload(n, ct, len) == [filename |-> n, content_type |-> ct, content |-> len, pos |-> 0]

jpg == <<".","j","p","g">>
JPG == <<".","J","P","G">>
png == <<".","p","n","g">>

Names ==
    { <<"c","o","w">> \o jpg,
      <<"C","a","t","t","l","e">> \o png,
      <<"h","o","t","d","o","g">> \o jpg,
      <<"C","A","T">> \o JPG,
      <<"K","i","n","g","C","o","b","r","a">> \o JPG,
      <<"v","i","p","e","r">>,
      <<"k","R","A","I","t">> \o png,
      <<"c","o","_","b","r","a">> \o jpg,
      <<"r","a","t">> \o jpg,
      <<"H","a","p","p","y">> \o png,
      <<"g","r","o","w","l">> \o jpg,
      <<"r","a","n","d","o","m">> \o jpg,
      <<"B","o","v","i","n","e">>,
      <<"c","a","n","i","n","e">> \o png,
      <<"f","e","l","i","n","e">> \o jpg,
      <<"s","M","i","L","e">> \o jpg,
      <<"a","n","g","r","y">> \o JPG,
      <<"H","I","S","S">>,
      <<>> }

\* Every name comes as a JPEG whose content is as long as the name; two
\* names also come without a content type and with empty content.
Uploads ==
    { Upload(n, Str("image/jpeg"), Len(n)) : n \in Names }
    \cup { Upload(n, None, 0) : n \in { <<"v","i","p","e","r">>, <<"r","a","t">> \o jpg } }

Batches == UNION { [1..n -> Uploads] : n \in 0..MaxFiles }

\* The batches the concurrent specification interleaves.
cobra_file == Upload(<<"C","o","b","r","a">> \o JPG, Str("image/jpeg"), 3)
rat_file == Upload(<<"r","a","t">> \o png, None, 0)
SmallBatches == { <<>>, <<cobra_file>>, <<rat_file, cobra_file>> }

---------------------------------------------------------------------------
(* The handlers' local variables and history *)

EmptyFrame == [payload |-> None, filenames |-> <<>>, content_types |-> <<>>,
               sizes |-> <<>>, log |-> None]

Count(ev, trace) == Cardinality({ i \in 1..Len(trace) : trace[i] = ev })
Happened(ev, trace) == \E i \in 1..Len(trace) : trace[i] = ev
Before(a, b, trace) ==
    \E i, j \in 1..Len(trace) : i < j /\ trace[i] = a /\ trace[j] = b

HTTPException(code, msg) == [status_code |-> code, detail |-> msg]
OK(body) == [status_code |-> 200, body |-> body]

\* if not files: raise HTTPException(status_code=400, detail="No files uploaded")
no_files(r) ==
    /\ response' = [response EXCEPT ![r] = HTTPException(400, "No files uploaded")]
    /\ events' = [events EXCEPT ![r] = <<"HTTPException">>]
    /\ pc' = [pc EXCEPT ![r] = "done"]
    /\ UNCHANGED local

\* An unguarded handler: files[0] on an empty list raises IndexError, which
\* the framework answers with 500.
index_error(r) ==
    /\ response' = [response EXCEPT ![r] = HTTPException(500, "Internal Server Error")]
    /\ events' = [events EXCEPT ![r] = <<"predict", "IndexError">>]
    /\ pc' = [pc EXCEPT ![r] = "done"]
    /\ UNCHANGED local

\* The payload is composed, the try block is entered, the name and content
\* type lists are built, and the handler suspends at its first `await f.read()`.
enter_try(r, fs, payload) ==
    /\ local' = [local EXCEPT ![r] =
                    [payload |-> payload,
                     filenames |-> [i \in 1..Len(fs) |-> fs[i].filename],
                     content_types |-> [i \in 1..Len(fs) |-> fs[i].content_type],
                     sizes |-> <<>>,
                     log |-> None]]
    /\ events' = [events EXCEPT ![r] = <<"predict">>]
    /\ pc' = [pc EXCEPT ![r] = "read"]
    /\ UNCHANGED response

\* Each endpoint is given the set of batches a request may carry; it runs
\* from its first statement to its first `await f.read()`.
classify(r, batches) ==
    /\ pc[r] = "idle"
    /\ \E fs \in batches :
          /\ handler' = [handler EXCEPT ![r] = "classify"]
          /\ files' = [files EXCEPT ![r] = fs]
          /\ IF fs = <<>> THEN no_files(r) ELSE enter_try(r, fs, classify_payload(fs))
    /\ UNCHANGED <<db, analysislog, health_vars>>

snake(r, batches) ==
    /\ pc[r] = "idle"
    /\ \E fs \in batches :
          /\ handler' = [handler EXCEPT ![r] = "snake"]
          /\ files' = [files EXCEPT ![r] = fs]
          /\ IF fs = <<>> THEN no_files(r) ELSE enter_try(r, fs, snake_payload(fs))
    /\ UNCHANGED <<db, analysislog, health_vars>>

\* The handler without its `if not files` guard.
emotion_unguarded(r, batches) ==
    /\ pc[r] = "idle"
    /\ \E fs \in batches :
          /\ handler' = [handler EXCEPT ![r] = "emotion"]
          /\ files' = [files EXCEPT ![r] = fs]
          /\ IF fs = <<>> THEN index_error(r) ELSE enter_try(r, fs, emotion_payload(fs))
    /\ UNCHANGED <<db, analysislog, health_vars>>

emotion(r, batches) ==
    /\ pc[r] = "idle"
    /\ \E fs \in batches :
          /\ handler' = [handler EXCEPT ![r] = "emotion"]
          /\ files' = [files EXCEPT ![r] = fs]
          /\ IF fs = <<>> THEN no_files(r) ELSE enter_try(r, fs, emotion_payload(fs))
    /\ UNCHANGED <<db, analysislog, health_vars>>

---------------------------------------------------------------------------
(* The try block: best-effort logging *)

\* await f.read(): the bytes from the stream position to the end
read(f) == [data |-> f.content - f.pos, file |-> [f EXCEPT !.pos = f.content]]

\* The module literal an endpoint pasted everywhere.
log_module_pasted(h) == "classifier"

\* The module literal each endpoint gives its AnalysisLog
log_module(h) ==
    CASE h = "classify" -> "classifier"
      [] h = "snake" -> "snake"
      [] h = "emotion" -> "emotion"

\* schemas.AnalysisLog
AnalysisLog(module, filenames, content_types, sizes, result) ==
    [module |-> module, filenames |-> filenames, content_types |-> content_types,
     sizes |-> sizes, result |-> result]

\* log = AnalysisLog(module=..., filenames=..., content_types=..., sizes=..., result=payload)
build_log(h, frame) ==
    AnalysisLog(log_module(h), frame.filenames, frame.content_types, frame.sizes,
                frame.payload)

\* One `await f.read()` of the sizes comprehension completes.
await_read(r) ==
    /\ pc[r] = "read"
    /\ LET i == Len(local[r].sizes) + 1
           got == read(files[r][i])
       IN  /\ files' = [files EXCEPT ![r][i] = got.file]
           /\ local' = [local EXCEPT ![r].sizes = Append(@, got.data)]
           /\ pc' = [pc EXCEPT ![r] = IF i = Len(files[r]) THEN "build" ELSE "read"]
    /\ events' = [events EXCEPT ![r] = Append(@, "read")]
    /\ UNCHANGED <<handler, response, db, analysislog, health_vars>>

\* The read raising with no try block around it: the framework answers 500.
await_read_propagates(r) ==
    /\ pc[r] = "read"
    /\ pc' = [pc EXCEPT ![r] = "done"]
    /\ events' = [events EXCEPT ![r] = Append(@, "read_raised")]
    /\ response' = [response EXCEPT ![r] = HTTPException(500, "Internal Server Error")]
    /\ local' = [local EXCEPT ![r] = EmptyFrame]
    /\ UNCHANGED <<handler, files, db, analysislog, health_vars>>

\* `await f.read()` raises: except Exception: pass
await_read_raises(r) ==
    /\ pc[r] = "read"
    /\ pc' = [pc EXCEPT ![r] = "return"]
    /\ events' = [events EXCEPT ![r] = Append(@, "read_raised")]
    /\ UNCHANGED <<handler, files, local, response, db, analysislog, health_vars>>

\* The AnalysisLog is constructed.
AnalysisLog_built(r) ==
    /\ pc[r] = "build"
    /\ local' = [local EXCEPT ![r].log = build_log(handler[r], local[r])]
    /\ pc' = [pc EXCEPT ![r] = "write"]
    /\ events' = [events EXCEPT ![r] = Append(@, "AnalysisLog")]
    /\ UNCHANGED <<handler, files, response, db, analysislog, health_vars>>

\* The AnalysisLog constructor rejects its arguments (a content type that is
\* None, where the schema wants a str): except Exception: pass
AnalysisLog_raises(r) ==
    /\ pc[r] = "build"
    /\ \E i \in 1..Len(local[r].content_types) : local[r].content_types[i] = None
    /\ pc' = [pc EXCEPT ![r] = "return"]
    /\ events' = [events EXCEPT ![r] = Append(@, "AnalysisLog_raised")]
    /\ UNCHANGED <<handler, files, local, response, db, analysislog, health_vars>>

\* The write taken off the request path: the handler answers first and the
\* document is inserted afterwards.
create_document_detached(r) ==
    /\ pc[r] = "write"
    /\ db # None
    /\ response' = [response EXCEPT ![r] = OK(local[r].payload)]
    /\ analysislog' = analysislog (+) SetToBag({ [rid |-> r, doc |-> local[r].log] })
    /\ pc' = [pc EXCEPT ![r] = "done"]
    /\ events' = [events EXCEPT ![r] = @ \o <<"return", "create_document", "inserted">>]
    /\ local' = [local EXCEPT ![r] = EmptyFrame]
    /\ UNCHANGED <<handler, files, db, health_vars>>

\* _ = create_document("analysislog", log): the document is inserted.
create_document_inserted(r) ==
    /\ pc[r] = "write"
    /\ db # None
    /\ analysislog' = analysislog (+) SetToBag({ [rid |-> r, doc |-> local[r].log] })
    /\ pc' = [pc EXCEPT ![r] = "return"]
    /\ events' = [events EXCEPT ![r] = @ \o <<"create_document", "inserted">>]
    /\ UNCHANGED <<handler, files, local, response, db, health_vars>>

\* The failed write tried again.
create_document_retried(r) ==
    /\ pc[r] = "write"
    /\ pc' = pc
    /\ events' = [events EXCEPT ![r] = @ \o <<"create_document", "raised">>]
    /\ UNCHANGED <<handler, files, local, response, db, analysislog, health_vars>>

\* create_document raises (no store handle, or the insert fails):
\* except Exception: pass
create_document_raises(r) ==
    /\ pc[r] = "write"
    /\ pc' = [pc EXCEPT ![r] = "return"]
    /\ events' = [events EXCEPT ![r] = @ \o <<"create_document", "raised">>]
    /\ UNCHANGED <<handler, files, local, response, db, analysislog, health_vars>>

\* A payload kept in one module-level variable: the handler returns whichever
\* payload was composed last.
return_shared(r) ==
    /\ pc[r] = "return"
    /\ \E q \in Requests :
          /\ local[q].payload # None
          /\ response' = [response EXCEPT ![r] = OK(local[q].payload)]
    /\ pc' = [pc EXCEPT ![r] = "done"]
    /\ events' = [events EXCEPT ![r] = Append(@, "return")]
    /\ local' = [local EXCEPT ![r] = EmptyFrame]
    /\ UNCHANGED <<handler, files, db, analysislog, health_vars>>

\* return payload
return_payload(r) ==
    /\ pc[r] = "return"
    /\ response' = [response EXCEPT ![r] = OK(local[r].payload)]
    /\ pc' = [pc EXCEPT ![r] = "done"]
    /\ events' = [events EXCEPT ![r] = Append(@, "return")]
    /\ local' = [local EXCEPT ![r] = EmptyFrame]
    /\ UNCHANGED <<handler, files, db, analysislog, health_vars>>

---------------------------------------------------------------------------
(* GET /test *)

ShowCollections == 10   \* collections[:10]
ErrorChars == 50        \* str(e)[:50]

\* s[:n]
Take(s, n) == SubSeq(s, 1, Min(n, Len(s)))

\* A status text: a fixed label and, for the error labels, the excerpt of
\* the exception message that the f-string appends.
Text(label, detail) == [label |-> label, detail |-> detail]

\* The store handle: None, a database handle, or a handle with no name attribute.
Handle == [type |-> "Database", name |-> "pashu"]
NamelessHandle == [type |-> "Database"]
hasattr(d, a) == a \in DOMAIN d

Messages == { [i \in 1..n |-> "e"] : n \in {4, 60} }

\* What db.list_collection_names() does: raises, or lists n names.
Listings ==
    { [raises |-> TRUE, message |-> m, names |-> <<>>] : m \in Messages }
    \cup { [raises |-> FALSE, message |-> <<>>, names |-> [i \in 1..n |-> i]] :
              n \in 0..MaxCollections }

\* What `from database import db` does: ImportError ("missing"), another
\* exception ("broken"), or the import succeeds ("ok").
Stores ==
    { [module |-> "missing", error |-> <<>>, listing |-> l] : l \in Listings }
    \cup { [module |-> "broken", error |-> m, listing |-> l] : m \in Messages, l \in Listings }
    \cup { [module |-> "ok", error |-> <<>>, listing |-> l] : l \in Listings }

EnvNames == {"DATABASE_URL", "DATABASE_NAME"}
EnvValues == {"", "mongodb://localhost:27017"}
Environments == UNION { [S -> EnvValues] : S \in SUBSET EnvNames }

\* os.getenv(k)
getenv(env, k) == IF k \in DOMAIN env THEN Str(env[k]) ELSE None

\* The truth value of an optional str
truthy(v) == v # None /\ v.value # ""

\* The whole list shown, not its first ten.
first_collections_all(collections) == collections

\* collections[:10]
first_collections(collections) == Take(collections, ShowCollections)

initial_response ==
    [backend |-> Text("Running", <<>>),
     database |-> Text("Not Available", <<>>),
     database_url |-> None,
     database_name |-> None,
     connection_status |-> "Not Connected",
     collections |-> <<>>]

\* if db is not None: ... else: ...
probe_db(st, d, resp) ==
    IF d # None
    THEN LET connected ==
                 [resp EXCEPT !.database = Text("Available", <<>>),
                              !.database_url = Str("Configured"),
                              !.database_name = IF hasattr(d, "name") THEN Str(d.name)
                                                ELSE Str("Connected"),
                              !.connection_status = "Connected"]
         IN  IF st.listing.raises
             THEN [connected EXCEPT !.database =
                       Text("Connected but Error", Take(st.listing.message, ErrorChars))]
             ELSE [connected EXCEPT !.collections = first_collections(st.listing.names),
                                    !.database = Text("Connected & Working", <<>>)]
    ELSE [resp EXCEPT !.database = Text("Available but not initialized", <<>>)]

\* try: from database import db ... except ImportError ... except Exception
try_database(st, d, resp) ==
    CASE st.module = "missing" ->
           [resp EXCEPT !.database =
               Text("Database module not found (run enable-database first)", <<>>)]
      [] st.module = "broken" ->
           [resp EXCEPT !.database = Text("Error", Take(st.error, ErrorChars))]
      [] st.module = "ok" -> probe_db(st, d, resp)

\* The flags keyed on the variable being there, whatever its value.
check_environment_presence(env, resp) ==
    [resp EXCEPT !.database_url = IF getenv(env, "DATABASE_URL") # None
                                  THEN Str("Set") ELSE Str("Not Set"),
                 !.database_name = IF getenv(env, "DATABASE_NAME") # None
                                   THEN Str("Set") ELSE Str("Not Set")]

\* Check environment variables
check_environment(env, resp) ==
    [resp EXCEPT !.database_url = IF truthy(getenv(env, "DATABASE_URL"))
                                  THEN Str("Set") ELSE Str("Not Set"),
                 !.database_name = IF truthy(getenv(env, "DATABASE_NAME"))
                                   THEN Str("Set") ELSE Str("Not Set")]

test_database ==
    /\ health = None
    /\ health' = OK(check_environment(environ, try_database(store, db, initial_response)))
    /\ UNCHANGED <<upload_vars, environ, store>>

---------------------------------------------------------------------------
(* Specifications *)

InitUploads ==
    /\ pc = [r \in Requests |-> "idle"]
    /\ handler = [r \in Requests |-> "none"]
    /\ files = [r \in Requests |-> <<>>]
    /\ local = [r \in Requests |-> EmptyFrame]
    /\ response = [r \in Requests |-> None]
    /\ events = [r \in Requests |-> <<>>]
    /\ analysislog = EmptyBag

\* The store handle is set once, when the database module is imported.
Init ==
    /\ InitUploads
    /\ db \in {None, Handle}
    /\ environ = << >>
    /\ store = [module |-> "ok", error |-> <<>>,
                listing |-> [raises |-> FALSE, message |-> <<>>, names |-> <<>>]]
    /\ health = None

Step(r) ==
    \/ await_read(r)
    \/ await_read_raises(r)
    \/ AnalysisLog_built(r)
    \/ AnalysisLog_raises(r)
    \/ create_document_inserted(r)
    \/ create_document_raises(r)
    \/ return_payload(r)

\* Requests in flight together, each suspended and resumed by the event loop.
Next ==
    \E r \in Requests :
        \/ classify(r, SmallBatches)
        \/ snake(r, SmallBatches)
        \/ emotion(r, SmallBatches)
        \/ Step(r)

Spec == Init /\ [][Next]_vars

\* One request, over the whole range of batches.
NextSeq ==
    \/ classify(1, Batches)
    \/ snake(1, Batches)
    \/ emotion(1, Batches)
    \/ Step(1)

SpecSeq == Init /\ [][NextSeq]_vars

\* The health check, in every store situation and environment.
InitHealth ==
    /\ InitUploads
    /\ db \in {None, Handle, NamelessHandle}
    /\ environ \in Environments
    /\ store \in Stores
    /\ health = None

NextHealth == test_database

SpecHealth == InitHealth /\ [][NextHealth]_vars

---------------------------------------------------------------------------
(* Properties *)

Done(r) == pc[r] = "done"
Valid(r) == pc[r] # "idle" /\ files[r] # <<>>
InFlight(r) == pc[r] \in {"read", "build", "write", "return"}
Docs(r) == { d \in BagToSet(analysislog) : d.rid = r }

\* Two requests that agree on the endpoint and on the number, names and
\* content types of their files.
SameRequest(a, b) ==
    /\ handler[a] = handler[b]
    /\ Len(files[a]) = Len(files[b])
    /\ \A i \in 1..Len(files[a]) :
          /\ files[a][i].filename = files[b][i].filename
          /\ files[a][i].content_type = files[b][i].content_type

\* A batch reduced to its files' names and content types, nothing read.
Described(fs) ==
    [i \in 1..Len(fs) |-> Upload(fs[i].filename, fs[i].content_type, 0)]

\* What the endpoint h answers to the batch fs when it runs alone.
Answer(h, fs) ==
    CASE h = "classify" -> OK(classify_payload(fs))
      [] h = "snake" -> OK(snake_payload(fs))
      [] h = "emotion" -> OK(emotion_payload(fs))

\* The answers to the batches of the concurrent specification, tabulated by
\* endpoint and by the names and content types of the files.
AloneAnswers ==
    [h \in {"classify", "snake", "emotion"} |->
        [fs \in { Described(b) : b \in SmallBatches \ {<<>>} } |-> Answer(h, fs)]]

Alone(h, fs) == AloneAnswers[h][Described(fs)]

AuditFailures == {"read_raised", "AnalysisLog_raised", "raised"}

\* C1: a valid request is answered 200 with the body its endpoint composes
\* from the files' names, content types and count alone, and two valid
\* requests to the same endpoint with the same names, content types and
\* count get the same status and body, whatever became of their audit steps
\* (document inserted, write raised, store handle absent, entry not built,
\* read raised).
C1_ResponseIndependentOfAudit ==
    \A a \in Requests :
        (Done(a) /\ Valid(a)) =>
            /\ response[a].status_code = 200
            /\ response[a] = Alone(handler[a], files[a])
            /\ \A b \in Requests :
                  (Done(b) /\ SameRequest(a, b)) => response[a] = response[b]

C1_Witness ==
    \E a, b \in Requests :
        /\ Done(a) /\ Done(b) /\ Valid(a) /\ SameRequest(a, b)
        /\ Happened("inserted", events[a])
        /\ Happened("read_raised", events[b])

\* C2: a request with no files is answered 400 "No files uploaded" by each
\* endpoint, with no prediction computed, no stream read, no log entry built
\* and no document written on its behalf.
C2_EmptyBatchRejected ==
    \A r \in Requests :
        (pc[r] # "idle" /\ files[r] = <<>>)
            => /\ Done(r)
               /\ response[r] = HTTPException(400, "No files uploaded")
               /\ events[r] = <<"HTTPException">>
               /\ local[r] = EmptyFrame
               /\ Docs(r) = {}

C2_Witness ==
    \E a, b \in Requests :
        /\ Done(a) /\ files[a] = <<>> /\ handler[a] = "emotion"
        /\ Done(b) /\ Docs(b) # {}

\* C3 as stated: every answered valid request has a store write attempt
\* before its return, and no write attempt after it.
C3_WriteAttemptBeforeEveryResponse ==
    \A r \in Requests :
        /\ (Done(r) /\ Valid(r)) => Before("create_document", "return", events[r])
        /\ ~ Before("return", "create_document", events[r])

\* C3 amended: the audit step is resolved before the return. Either the
\* entry was built, and then one write attempt and its outcome precede the
\* return; or a read or the construction of the entry raised, and then the
\* request is answered with no write attempt. Nothing follows the return.
C3_AuditResolvedBeforeResponse ==
    \A r \in Requests :
        /\ (Done(r) /\ Valid(r)) =>
              \/ /\ Happened("AnalysisLog", events[r])
                 /\ Count("create_document", events[r]) = 1
                 /\ Before("create_document", "return", events[r])
                 /\ \/ Before("inserted", "return", events[r])
                    \/ Before("raised", "return", events[r])
              \/ /\ \/ Happened("read_raised", events[r])
                    \/ Happened("AnalysisLog_raised", events[r])
                 /\ ~ Happened("create_document", events[r])
        /\ \A i \in 1..Len(events[r]) : events[r][i] = "return" => i = Len(events[r])
        /\ response[r] # None => Done(r)

C3_Witness ==
    \E a, b \in Requests :
        /\ Done(a) /\ Before("create_document", "return", events[a])
        /\ Done(b) /\ Happened("read_raised", events[b])
                   /\ response[b].status_code = 200

\* C6: every valid request is answered with exactly three predictions, each
\* confidence within [0,1] (0..100 hundredths), in descending confidence.
C6_PredictionsRanked ==
    \A r \in Requests :
        (Done(r) /\ Valid(r)) =>
            /\ response[r].status_code = 200
            /\ LET p == response[r].body.predictions IN
               /\ Len(p) = 3
               /\ \A i \in 1..Len(p) : p[i].confidence \in 0..100
               /\ \A i, j \in 1..Len(p) : i < j => p[i].confidence >= p[j].confidence

C6_Witness ==
    \E r \in Requests :
        /\ Done(r) /\ handler[r] = "emotion" /\ Len(files[r]) = MaxFiles
        /\ files[r][1].filename = <<"r","a","n","d","o","m">> \o jpg
        /\ response[r].body.predictions[1] = Prediction("Neutral", 70)

\* The first file's name contains cobra, viper or krait, in any letter case.
VenomNamed(fs) ==
    \E k \in { <<"c","o","b","r","a">>, <<"v","i","p","e","r">>, <<"k","r","a","i","t">> } :
        contains(lower(fs[1].filename), k)

\* C7: a snake answer's meta.danger is "Dangerous" exactly when its top
\* label is "Venomous Snake", which is exactly when the first file's name
\* contains cobra, viper or krait in any letter case; otherwise the top
\* label is "Non-venomous Snake" and the danger "Generally Safe". Later
\* files' names have no part in it.
C7_DangerFromTopLabel ==
    \A r \in Requests :
        (Done(r) /\ Valid(r) /\ handler[r] = "snake") =>
            LET top == response[r].body.predictions[1].label
                danger == response[r].body.meta.danger
            IN  /\ top \in {"Venomous Snake", "Non-venomous Snake"}
                /\ danger \in {"Dangerous", "Generally Safe"}
                /\ danger = "Dangerous" <=> top = "Venomous Snake"
                /\ top = "Venomous Snake" <=> VenomNamed(files[r])

C7_Witness ==
    \E r \in Requests :
        /\ Done(r) /\ handler[r] = "snake" /\ Len(files[r]) = 2
        /\ files[r][1].filename = <<"r","a","t">> \o jpg
        /\ files[r][2].filename = <<"K","i","n","g","C","o","b","r","a">> \o JPG
        /\ response[r].body.meta.danger = "Generally Safe"

\* The module an endpoint answers for.
EndpointModule(h) ==
    IF h = "classify" THEN "classifier" ELSE IF h = "snake" THEN "snake" ELSE "emotion"

\* C8: the log entry handed to the store has one name, one content type and
\* one size per file of the request, position i describing file i; its
\* module is the endpoint's and its result the payload that is returned.
C8_LogEntryAligned ==
    \A r \in Requests :
        /\ pc[r] = "write" =>
              LET log == local[r].log IN
              /\ Len(log.filenames) = Len(files[r])
              /\ Len(log.content_types) = Len(files[r])
              /\ Len(log.sizes) = Len(files[r])
              /\ \A i \in 1..Len(files[r]) :
                    /\ log.filenames[i] = files[r][i].filename
                    /\ log.content_types[i] = files[r][i].content_type
                    /\ log.sizes[i] = files[r][i].content
              /\ log.module = EndpointModule(handler[r])
              /\ log.result = local[r].payload
        /\ \A d \in Docs(r) :
              /\ d.doc.module = EndpointModule(handler[r])
              /\ Done(r) => d.doc.result = response[r].body

C8_Witness ==
    \E r \in Requests :
        /\ Done(r) /\ Docs(r) # {} /\ handler[r] = "snake" /\ Len(files[r]) = 2
        /\ files[r][1].filename # files[r][2].filename
        /\ files[r][1].content_type # files[r][2].content_type
        /\ files[r][1].content # files[r][2].content

\* C9: a request makes at most one write attempt; once a read, the entry's
\* construction or the write has raised, the only thing the handler still
\* does is return, with status 200, and nothing of the request is in the store.
C9_SingleAttemptNoRetry ==
    \A r \in Requests :
        /\ Count("create_document", events[r]) <= 1
        /\ Cardinality(Docs(r)) <= 1
        /\ \A d \in Docs(r) : CopiesIn(d, analysislog) = 1
        /\ \A i, j \in 1..Len(events[r]) :
              (i < j /\ events[r][i] \in AuditFailures) => events[r][j] = "return"
        /\ (\E i \in 1..Len(events[r]) : events[r][i] \in AuditFailures)
              => /\ Docs(r) = {}
                 /\ Done(r) => response[r].status_code = 200

C9_Witness ==
    \E r \in Requests :
        /\ Done(r) /\ db # None
        /\ Happened("raised", events[r])
        /\ Count("create_document", events[r]) = 1

\* C10: whatever the interleaving, a request's frame, its answer and its
\* document hold that request's own data: the answer is what the request
\* gets when run alone, the document carries its module, names, content
\* types, sizes and result, and no more documents are written than there
\* are valid requests.
C10_RequestsIndependent ==
    /\ \A r \in Requests :
          Valid(r) =>
            LET mine == Alone(handler[r], files[r])
                names == [i \in 1..Len(files[r]) |-> files[r][i].filename]
                types == [i \in 1..Len(files[r]) |-> files[r][i].content_type]
                lengths == [i \in 1..Len(files[r]) |-> files[r][i].content]
            IN  /\ Done(r) => response[r] = mine
                /\ InFlight(r) =>
                      /\ OK(local[r].payload) = mine
                      /\ local[r].filenames = names
                      /\ local[r].content_types = types
                      /\ local[r].sizes = SubSeq(lengths, 1, Len(local[r].sizes))
                /\ \A d \in Docs(r) :
                      /\ d.doc.module = EndpointModule(handler[r])
                      /\ d.doc.filenames = names
                      /\ d.doc.content_types = types
                      /\ d.doc.sizes = lengths
                      /\ OK(d.doc.result) = mine
    /\ \A d \in BagToSet(analysislog) : Valid(d.rid)
    /\ BagCardinality(analysislog) <= Cardinality({ r \in Requests : Valid(r) })

C10_Witness ==
    \E a, b \in Requests :
        /\ pc[a] = "return" /\ Docs(a) # {} /\ handler[a] = "snake"
        /\ pc[b] = "read" /\ Len(local[b].sizes) = 1 /\ handler[b] = "classify"
        /\ files[a] # files[b]

HealthFields == {"backend", "database", "database_url", "database_name",
                 "connection_status", "collections"}

\* The store was reached: the module imported, the handle is there and the
\* listing did not raise.
Listed == store.module = "ok" /\ db # None /\ ~ store.listing.raises

\* C4: in every store situation /test returns normally (status 200) with
\* its six fields, and collections holds the first names the store listed,
\* ten at most (none when nothing was listed).
C4_HealthNeverFails ==
    /\ health = None => ENABLED test_database
    /\ health # None =>
          /\ health.status_code = 200
          /\ DOMAIN health.body = HealthFields
          /\ Len(health.body.collections) <= 10
          /\ IF Listed
             THEN /\ Len(health.body.collections) = Min(10, Len(store.listing.names))
                  /\ \A i \in 1..Len(health.body.collections) :
                        health.body.collections[i] = store.listing.names[i]
             ELSE health.body.collections = <<>>

C4_Witness ==
    /\ health # None /\ Listed
    /\ Len(store.listing.names) > 10
    /\ Len(health.body.collections) = 10

\* C5 as stated: each of database_url and database_name reads "Set" exactly
\* when its variable is present in the environment, whatever its value, and
\* carries neither the variable's value nor the store's name.
C5_PresenceReported ==
    health # None =>
        /\ health.body.database_url = Str("Set") <=> "DATABASE_URL" \in DOMAIN environ
        /\ health.body.database_name = Str("Set") <=> "DATABASE_NAME" \in DOMAIN environ
        /\ health.body.database_url \in {Str("Set"), Str("Not Set")}
        /\ health.body.database_name \in {Str("Set"), Str("Not Set")}


\* The variable k is in the environment with a non-empty value.
SetNonEmpty(k) == k \in DOMAIN environ /\ environ[k] # ""

\* C5 amended: each of database_url and database_name reads "Set" exactly
\* when its variable is present with a non-empty value (present but empty
\* reads "Not Set"), in every store situation, and the field is one of the
\* two flags: never the variable's value, never the store's name.
C5_NonEmptyReported ==
    health # None =>
        /\ health.body.database_url = Str("Set") <=> SetNonEmpty("DATABASE_URL")
        /\ health.body.database_name = Str("Set") <=> SetNonEmpty("DATABASE_NAME")
        /\ health.body.database_url \in {Str("Set"), Str("Not Set")}
        /\ health.body.database_name \in {Str("Set"), Str("Not Set")}
        /\ \A k \in DOMAIN environ :
              /\ health.body.database_url # Str(environ[k])
              /\ health.body.database_name # Str(environ[k])
        /\ (db # None /\ hasattr(db, "name")) => health.body.database_name # Str(db.name)

C5_Witness ==
    /\ health # None /\ store.module = "ok" /\ db = Handle
    /\ "DATABASE_URL" \in DOMAIN environ /\ environ["DATABASE_URL"] = ""
    /\ health.body.database_url = Str("Not Set")
    /\ SetNonEmpty("DATABASE_NAME")
    /\ health.body.database_name = Str("Set")

====
